---- MODULE Spec2Model ----
(***************************************************************************)
(* Model of src/Algorithm_Fano/alg_fano.py: the FanoEncoder class.         *)
(*                                                                         *)
(* The constructor counts the symbols of the text, turns the counts into   *)
(* IEEE-754 double probabilities (count / total), sorts them, and assigns  *)
(* code words by recursive bisection (_fano_recursive, _med).  encode and  *)
(* decode use the table built by the constructor.                          *)
(*                                                                         *)
(* Probabilities are Python floats.  They are modelled bit-exactly as      *)
(* binary fixed-point numbers with 58 fractional bits, kept in two limbs   *)
(* <<hi, lo>> (value = (hi * Limb + lo) / 2^58, Limb = 2^28), and every    *)
(* arithmetic result is rounded to 53 significant bits, ties to even, as   *)
(* the hardware does.  The representation is exact as long as every value  *)
(* is at least 2^-5 or is a sum or difference of such values, that is for  *)
(* texts of at most 32 symbols.                                            *)
(*                                                                         *)
(* What the built-in sum() returns for floats depends on the interpreter:  *)
(* CPython up to 3.11 folds from the left, rounding after every addition;  *)
(* CPython 3.12 and later sum with Neumaier's compensation, which for      *)
(* these inputs returns the exact sum rounded once.  The interpreter is    *)
(* not fixed by the repository, so sumCompensated is chosen in Init.       *)
(***************************************************************************)
EXTENDS Integers, Sequences, FiniteSets, TLC

\* ------------------------------------------------------------------ bounds
MaxLen == 5
MaxBits == 3

\* The alphabet, in the order in which a text first uses its symbols.
SymOrder == <<"a", "b", "c", "d">>
Symbols == {SymOrder[i] : i \in 1..Len(SymOrder)}
Bit == {0, 1}

\* The distinct symbols of t from position i on, in the order of their first
\* occurrence: the keys of Counter(text), in insertion order (line 19).
RECURSIVE CounterKeys(_, _)
CounterKeys(t, i) ==
  IF i > Len(t) THEN <<>>
  ELSE (IF \E j \in 1..(i - 1) : t[j] = t[i] THEN <<>> ELSE <<t[i]>>)
       \o CounterKeys(t, i + 1)

\* The input texts.  The code handles symbols only through equality and
\* hashing (Counter, dict), never through their order or value, so every
\* text behaves as the text that renames its symbols to a, b, c, d in the
\* order of first occurrence; only those texts are enumerated.
Texts ==
  {t \in UNION {[1..n -> Symbols] : n \in 0..MaxLen} :
     LET keys == CounterKeys(t, 1) IN keys = SubSeq(SymOrder, 1, Len(keys))}
BitStrings == UNION {[1..n -> Bit] : n \in 0..MaxBits}

VARIABLES pc, text, codes, probabilities, probs, leaf, ret, sumCompensated
vars == <<pc, text, codes, probabilities, probs, leaf, ret, sumCompensated>>

\* ------------------------------------------------- IEEE-754 double floats
Limb == 2^28
FZero == <<0, 0>>
\* float('inf'): larger than every finite value of the model
FInf == <<(2^30 - 1) + 2^30, 0>>

FLess(x, y) == x[1] < y[1] \/ (x[1] = y[1] /\ x[2] < y[2])

Norm(hi, lo) ==
  IF lo >= Limb THEN <<hi + 1, lo - Limb>>
  ELSE IF lo < 0 THEN <<hi - 1, lo + Limb>>
  ELSE <<hi, lo>>

\* How many low bits of hi * Limb + lo lie beyond the 53 significant bits.
DropBits(hi) ==
  IF hi < 2^25 THEN 0
  ELSE IF hi < 2^26 THEN 1
  ELSE IF hi < 2^27 THEN 2
  ELSE IF hi < 2^28 THEN 3
  ELSE IF hi < 2^29 THEN 4
  ELSE IF hi < 2^30 THEN 5
  ELSE 6

\* Round to nearest, ties to even; sticky says that the exact value has
\* non-zero bits below the last bit of lo.
RoundNearestEven(hi, lo, sticky) ==
  LET u == DropBits(hi)
  IN  IF u = 0 THEN <<hi, lo>>
      ELSE LET q    == lo % (2^u)
               half == 2^(u - 1)
               odd  == (lo \div (2^u)) % 2 = 1
               up   == q > half \/ (q = half /\ (sticky \/ odd))
           IN  IF up THEN Norm(hi, lo - q + 2^u) ELSE <<hi, lo - q>>

\* count / total of two ints (line 21): the correctly rounded quotient.
FDiv(c, t) ==
  LET d0 == c \div t
      r0 == c % t
      d1 == (r0 * 2^15) \div t
      r1 == (r0 * 2^15) % t
      d2 == (r1 * 2^15) \div t
      r2 == (r1 * 2^15) % t
      d3 == (r2 * 2^14) \div t
      r3 == (r2 * 2^14) % t
      d4 == (r3 * 2^14) \div t
      r4 == (r3 * 2^14) % t
  IN  RoundNearestEven(d0 * 2^30 + d1 * 2^15 + d2, d3 * 2^14 + d4, r4 # 0)

FAdd(x, y) ==
  LET s == Norm(x[1] + y[1], x[2] + y[2])
  IN  RoundNearestEven(s[1], s[2], FALSE)

\* x - y for x >= y (total_sum - left_sum: left_sum is a prefix of the fold
\* that gives total_sum, and adding a non-negative float never decreases).
FSub(x, y) ==
  LET s == Norm(x[1] - y[1], x[2] - y[2])
  IN  RoundNearestEven(s[1], s[2], FALSE)

\* abs(x - y): rounding is symmetric, so abs(fl(x - y)) = fl(|x - y|).
FAbsDiff(x, y) == IF FLess(x, y) THEN FSub(y, x) ELSE FSub(x, y)

\* --------------------------------------------- _calculate_probabilities
Count(t, c) == Cardinality({i \in 1..Len(t) : t[i] = c})

\* list.sort(key = probability, reverse = True): stable, so an element goes
\* behind every element whose probability is not smaller.
RECURSIVE Insert(_, _)
Insert(s, x) ==
  IF s = <<>> THEN <<x>>
  ELSE IF FLess(Head(s)[2], x[2]) THEN <<x>> \o s
  ELSE <<Head(s)>> \o Insert(Tail(s), x)

RECURSIVE SortDesc(_)
SortDesc(s) ==
  IF s = <<>> THEN <<>>
  ELSE Insert(SortDesc(SubSeq(s, 1, Len(s) - 1)), s[Len(s)])

CalculateProbabilities(t) ==
  LET keys == CounterKeys(t, 1)
  IN  SortDesc([k \in 1..Len(keys) |-> <<keys[k], FDiv(Count(t, keys[k]), Len(t))>>])

\* ------------------------------------------------------------------ _med
\* sum(p for _, p in probs[b:e+1]); indices are the code's (from 0).
\* The left fold, rounding after every addition:
RECURSIVE SumLoop(_, _, _, _)
SumLoop(p, i, e, acc) ==
  IF i > e THEN acc ELSE SumLoop(p, i + 1, e, FAdd(acc, p[i + 1][2]))

\* the exact sum, not rounded:
RECURSIVE SumExact(_, _, _, _)
SumExact(p, i, e, acc) ==
  IF i > e THEN acc
  ELSE SumExact(p, i + 1, e, Norm(acc[1] + p[i + 1][2][1], acc[2] + p[i + 1][2][2]))

Sum(p, b, e) ==
  IF sumCompensated
  THEN LET s == SumExact(p, b, e, FZero) IN RoundNearestEven(s[1], s[2], FALSE)
  ELSE SumLoop(p, b, e, FZero)

RECURSIVE MedLoop(_, _, _, _, _, _, _)
MedLoop(p, m, e, total_sum, left_sum, min_diff, best_m) ==
  IF m >= e THEN best_m
  ELSE LET ls   == FAdd(left_sum, p[m + 1][2])
           rs   == FSub(total_sum, ls)
           diff == FAbsDiff(ls, rs)
       IN  IF FLess(diff, min_diff)
           THEN MedLoop(p, m + 1, e, total_sum, ls, diff, m)
           ELSE MedLoop(p, m + 1, e, total_sum, ls, min_diff, best_m)

Med(p, b, e) ==
  IF b >= e THEN b
  ELSE MedLoop(p, b, e, Sum(p, b, e), FZero, FInf, b)

\* ------------------------------------------------------- _fano_recursive
EmptyMap == <<>>

Put(f, k, v) == [x \in DOMAIN f \cup {k} |-> IF x = k THEN v ELSE f[x]]

\* codes[char] = code for the chars of probs[lo..hi] (lines 71-77)
Mark(f, p, lo, hi, code) ==
  LET ks == {p[i + 1][1] : i \in lo..hi}
  IN  [x \in DOMAIN f \cup ks |-> IF x \in ks THEN code ELSE f[x]]

\* (mutants of line 64)
LeafCodeRaw(current_code) == current_code

LeafCodeOne(current_code) == IF current_code # <<>> THEN current_code ELSE <<1>>

\* current_code if current_code else "0" (line 64)
LeafCode(current_code) == IF current_code # <<>> THEN current_code ELSE <<0>>

\* (mutant of line 80)
LeftCodeSame(current_code) == current_code

\* current_code + "0" (lines 73, 80)
LeftCode(current_code) == current_code \o <<0>>

\* (mutant of line 81)
RightCodeSame(current_code) == current_code

\* current_code + "1" (lines 77, 81)
RightCode(current_code) == current_code \o <<1>>

\* st.codes is the dict the procedure fills; st.leaf records, for each
\* symbol, the recursion depth d of the call in which its range collapsed.
RECURSIVE FanoRecursive(_, _, _, _, _, _)
FanoRecursive(p, st, b, e, current_code, d) ==
  IF e < b THEN st
  ELSE IF e = b
  THEN [codes |-> Put(st.codes, p[b + 1][1], LeafCode(current_code)),
        leaf  |-> Put(st.leaf, p[b + 1][1], d)]
  ELSE LET m  == Med(p, b, e)
           c1 == Mark(st.codes, p, b, m, LeftCode(current_code))
           c2 == Mark(c1, p, m + 1, e, RightCode(current_code))
           s1 == FanoRecursive(p, [codes |-> c2, leaf |-> st.leaf], b, m,
                               LeftCode(current_code), d + 1)
       IN  FanoRecursive(p, s1, m + 1, e, RightCode(current_code), d + 1)

\* ---------------------------------------------------------- encode/decode
RECURSIVE EncodeLoop(_, _, _)
EncodeLoop(t, c, i) ==
  IF i > Len(t) THEN <<>> ELSE c[t[i]] \o EncodeLoop(t, c, i + 1)

\* (mutant of line 129: the last symbol is left out)
EncodeTextShort(t, c) == EncodeLoop(SubSeq(t, 1, Len(t) - 1), c, 1)

\* ''.join(self.codes[char] for char in self.text) (line 129)
EncodeText(t, c) == EncodeLoop(t, c, 1)

\* {code: char for char, code in self.codes.items()}: the dict iterates in
\* insertion order, which is the order of the ranked list, and a later
\* symbol overwrites an earlier one with the same code.
ReverseCodes(c, p) ==
  LET rank(ch) == CHOOSE i \in 1..Len(p) : p[i][1] = ch
  IN  [w \in {c[ch] : ch \in DOMAIN c} |->
         CHOOSE ch \in DOMAIN c :
           /\ c[ch] = w
           /\ \A o \in DOMAIN c : c[o] = w => rank(o) <= rank(ch)]

\* (mutant of line 162: the accumulator is not reset)
AfterMatchKeep(cur) == cur

\* current_code = "" once a code word is matched (line 162)
AfterMatch(cur) == <<>>

\* The loop of decode; accs records current_code at the end of each iteration.
RECURSIVE DecodeLoop(_, _, _, _, _, _)
DecodeLoop(encoded, i, rev, decoded, current_code, accs) ==
  IF i > Len(encoded)
  THEN [out |-> decoded, acc |-> current_code, accs |-> accs]
  ELSE LET cur == current_code \o <<encoded[i]>>
       IN  IF cur \in DOMAIN rev
           THEN DecodeLoop(encoded, i + 1, rev, Append(decoded, rev[cur]),
                           AfterMatch(cur), Append(accs, AfterMatch(cur)))
           ELSE DecodeLoop(encoded, i + 1, rev, decoded, cur, Append(accs, cur))

DecodeBits(encoded, c, p) ==
  DecodeLoop(encoded, 1, ReverseCodes(c, p), <<>>, <<>>, <<>>)

\* ------------------------------------------------------------ the machine
NoRet == [op |-> "none", in |-> <<>>, out |-> <<>>, acc |-> <<>>, accs |-> <<>>]

Init ==
  /\ pc = "new"
  /\ text = <<>>
  /\ codes = EmptyMap
  /\ probabilities = EmptyMap
  /\ probs = <<>>
  /\ leaf = EmptyMap
  /\ ret = NoRet
  /\ sumCompensated \in BOOLEAN

\* FanoEncoder(text): __init__ and _build_codes
Construct(t) ==
  /\ pc = "new"
  /\ LET p  == CalculateProbabilities(t)
         st == FanoRecursive(p, [codes |-> EmptyMap, leaf |-> EmptyMap],
                             0, Len(p) - 1, <<>>, 0)
     IN  /\ text' = t
         /\ probs' = p
         /\ probabilities' = [ch \in {p[i][1] : i \in 1..Len(p)} |->
                                p[CHOOSE i \in 1..Len(p) : p[i][1] = ch][2]]
         /\ codes' = st.codes
         /\ leaf' = st.leaf
  /\ pc' = "built"
  /\ ret' = NoRet
  /\ UNCHANGED sumCompensated

Encode ==
  /\ pc = "built"
  /\ ret' = [op |-> "encode", in |-> <<>>, out |-> EncodeText(text, codes),
             acc |-> <<>>, accs |-> <<>>]
  /\ UNCHANGED <<pc, text, codes, probabilities, probs, leaf, sumCompensated>>

\* (mutant of decode: the result is stored in self.text)
DecodeStoring(encoded) ==
  /\ pc = "built"
  /\ LET r == DecodeBits(encoded, codes, probs)
     IN  /\ ret' = [op |-> "decode", in |-> encoded, out |-> r.out,
                    acc |-> r.acc, accs |-> r.accs]
         /\ text' = r.out
  /\ UNCHANGED <<pc, codes, probabilities, probs, leaf, sumCompensated>>

\* decode(encoded)
Decode(encoded) ==
  /\ pc = "built"
  /\ LET r == DecodeBits(encoded, codes, probs)
     IN  ret' = [op |-> "decode", in |-> encoded, out |-> r.out,
                 acc |-> r.acc, accs |-> r.accs]
  /\ UNCHANGED <<pc, text, codes, probabilities, probs, leaf, sumCompensated>>

\* decode is given any bit string, or what encode has just returned
\* (test_fano_algorithm, lines 280-283).
DecodeInputs == BitStrings \cup (IF ret.op = "encode" THEN {ret.out} ELSE {})

Next ==
  \/ \E t \in Texts : Construct(t)
  \/ Encode
  \/ \E bits \in DecodeInputs : Decode(bits)

Spec == Init /\ [][Next]_vars

\* ---------------------------------------------------------------- claims
Built == pc = "built"
Alphabet == DOMAIN codes
AlphabetSize == Cardinality(Alphabet)
TextSymbols == {text[i] : i \in 1..Len(text)}

IsPrefix(u, v) == Len(u) <= Len(v) /\ SubSeq(v, 1, Len(u)) = u
IsProperPrefix(u, v) == Len(u) < Len(v) /\ SubSeq(v, 1, Len(u)) = u

MaxOf(S) == CHOOSE x \in S : \A y \in S : y <= x
MaxDepth == MaxOf({leaf[ch] : ch \in DOMAIN leaf})
MaxCodeLen == MaxOf({Len(codes[ch]) : ch \in Alphabet})
Zeros(k) == [i \in 1..k |-> 0]

\* C1 (round trip): for a non-empty text, decoding the bit string that
\* encode yields with the table built from the text returns the text.
RoundTrip ==
  (Built /\ text # <<>> /\ ret.op = "decode" /\ ret.in = EncodeText(text, codes))
    => ret.out = text

RoundTripWitness ==
  /\ Built /\ Len(text) >= 4 /\ AlphabetSize >= 3
  /\ ret.op = "decode" /\ ret.in = EncodeText(text, codes) /\ ret.out = text

\* C2 (prefix freedom): in a built table no code word of a symbol is a
\* prefix of the code word of another symbol.
PrefixFree ==
  Built => \A a, b \in Alphabet : a # b => ~IsPrefix(codes[a], codes[b])

PrefixFreeWitness ==
  /\ Built /\ AlphabetSize = 4
  /\ \E a, b \in Alphabet : Len(codes[a]) < Len(codes[b])

\* C3 (coverage): the keys of the table built from a non-empty text are
\* exactly the text's distinct symbols, and every code word is a non-empty
\* string of binary digits.
Coverage ==
  (Built /\ text # <<>>) =>
    /\ Alphabet = TextSymbols
    /\ \A ch \in Alphabet :
         /\ codes[ch] # <<>>
         /\ \A i \in 1..Len(codes[ch]) : codes[ch][i] \in Bit

CoverageWitness ==
  /\ Built /\ Len(text) > Cardinality(TextSymbols)
  /\ Cardinality(TextSymbols) = 3 /\ Alphabet = TextSymbols

\* C4 (empty input): building from the empty text fails, so that no
\* encoder is ever built from it.
EmptyInputFails == ~(Built /\ text = <<>>)

\* C5 (truncated stream): decode fails, and so returns nothing, when the
\* accumulator is non-empty after the last digit (stated for the tables of
\* non-empty texts, so that it does not rest on the empty table of C4).
TruncatedStreamFails ==
  ~(Built /\ text # <<>> /\ ret.op = "decode" /\ ret.acc # <<>>)

\* C6 (single symbol): for a text of k >= 1 copies of one symbol s the table
\* is {s: "0"}, encode yields k zeros, and decoding k zeros yields the text.
SingleSymbol ==
  (Built /\ Cardinality(TextSymbols) = 1) =>
    /\ codes = (text[1] :> <<0>>)
    /\ ret.op = "encode" => ret.out = Zeros(Len(text))
    /\ (ret.op = "decode" /\ ret.in = Zeros(Len(text))) => ret.out = text

SingleSymbolWitness ==
  /\ Built /\ Cardinality(TextSymbols) = 1 /\ Len(text) >= 3
  /\ ret.op = "decode" /\ ret.in = Zeros(Len(text)) /\ ret.out = text

\* The mass of a range of the ranked list, in symbol counts (exact).
CountAt(i) == Count(text, probs[i + 1][1])
RECURSIVE Mass(_, _)
Mass(lo, hi) == IF lo > hi THEN 0 ELSE CountAt(lo) + Mass(lo + 1, hi)
Abs(x) == IF x < 0 THEN -x ELSE x
SplitDiff(b, m, e) == Abs(Mass(b, m) - Mass(m + 1, e))
LeftmostMinimiser(b, e, m) ==
  /\ b <= m /\ m < e
  /\ \A k \in b..(e - 1) : SplitDiff(b, m, e) <= SplitDiff(b, k, e)
  /\ \A k \in b..(m - 1) : SplitDiff(b, k, e) > SplitDiff(b, m, e)
\* C7 (split point): for every range [b, e] of the ranked list, _med returns
\* b when b = e, and otherwise the smallest m in b..e-1 that minimises
\* |mass[b..m] - mass[m+1..e]|, the masses taken as symbol counts.
MedLeftmostMinimiser ==
  Built => \A b, e \in 0..(Len(probs) - 1) :
             /\ b = e => Med(probs, b, e) = b
             /\ b < e => LeftmostMinimiser(b, e, Med(probs, b, e))

\* The depth at which a symbol's range collapsed is its code length.
LeafDepthIsCodeLen ==
  AlphabetSize >= 2 => \A ch \in Alphabet : leaf[ch] = Len(codes[ch])

\* C8 as stated (recursion depth): the depth of _fano_recursive is at most
\* log2 of the number of distinct symbols, and for two symbols or more the
\* depth at which a symbol's range collapses is the length of its code word.
\* log2 is taken rounded up, the reading that favours the claim: depth d is
\* within it iff d = 0 or 2^(d-1) < number of symbols.
DepthWithinLog2 ==
  (Built /\ text # <<>>) =>
    /\ MaxDepth = 0 \/ 2^(MaxDepth - 1) < AlphabetSize
    /\ LeafDepthIsCodeLen

\* C8 as amended: the depth of _fano_recursive is at most the number of
\* distinct symbols minus one, whatever the frequencies and the length of
\* the text, and for two symbols or more the depth at which a symbol's range
\* collapses is the length of its code word.
DepthWithinAlphabet ==
  (Built /\ text # <<>>) =>
    /\ MaxDepth <= AlphabetSize - 1
    /\ LeafDepthIsCodeLen

DepthWitness == Built /\ AlphabetSize = 4 /\ MaxDepth = 3

\* C9 (immutability): no encode or decode call on a built encoder changes
\* the code table, the probability table or the stored text.
TablesImmutable ==
  [][Built => /\ codes' = codes
              /\ probabilities' = probabilities
              /\ text' = text]_vars

TablesImmutableWitness ==
  /\ Built /\ AlphabetSize >= 2
  /\ ret.op = "decode" /\ ret.in # <<>> /\ ret.out # text

\* C10 (complete code): with two distinct symbols or more, for every bit
\* string, after each digit the accumulator of decode is empty or a proper
\* prefix of a code word; so it stays shorter than the longest code word,
\* and the code words of the emitted symbols followed by the final
\* accumulator are the input.
CodeComplete ==
  (Built /\ AlphabetSize >= 2 /\ ret.op = "decode") =>
    /\ \A i \in 1..Len(ret.accs) :
         \/ ret.accs[i] = <<>>
         \/ \E ch \in Alphabet : IsProperPrefix(ret.accs[i], codes[ch])
    /\ Len(ret.accs) = Len(ret.in)
    /\ \A i \in 1..Len(ret.accs) : Len(ret.accs[i]) < MaxCodeLen
    /\ EncodeText(ret.out, codes) \o ret.acc = ret.in

CodeCompleteWitness ==
  /\ Built /\ AlphabetSize = 4 /\ ret.op = "decode"
  /\ ret.out # <<>> /\ Len(ret.acc) = 2

====
